---- MODULE Spec2Model ----
(***************************************************************************)
(* gonc: the NetCDF Classic / 64-bit-offset header reader of package gonc  *)
(* (src/main.go, lines 34-337).  The model follows Open and the three list *)
(* readers read by read: every state is a position in that code, the file  *)
(* offset of the os.File, and the values decoded so far.                   *)
(*                                                                         *)
(* A file is a sequence of bytes (0..255).  A Go string or []byte is the   *)
(* sequence of its bytes.                                                  *)
(***************************************************************************)
EXTENDS Integers, Sequences, FiniteSets, TLC

\* ---- bounds of the input space ----------------------------------------
\* longest dimension list generated
MaxDims == 2
\* longest variable list generated
MaxVars == 2
\* inputs with at most this many list items are also cut at every byte
MaxTruncItems == 1

\* ---- program constants ------------------------------------------------
ClassicFormat == 1
Format64BitOffset == 2
DimTag == 10
VarTag == 11
AttrTag == 12

NoErr == "nil"
ErrEOF == "EOF"
ErrOpen == "open failed"
ErrMagic == "not a NetCDF file"
ErrFormat == "unsupported NetCDF format"
ErrDimTag == "invalid dim_list tag"
ErrAttrTag == "invalid attr_list tag"
ErrVarTag == "invalid var_list tag"

\* ---- Go runtime primitives the code calls ------------------------------
Min(a, b) == IF a < b THEN a ELSE b

\* make([]byte, n): n zero bytes
Zeros(n) == [k \in 1..n |-> 0]

\* bytes of f left at offset p (none once the offset is at or past the end)
Avail(f, p) == IF p >= Len(f) THEN 0 ELSE Len(f) - p

\* f.Read(buf), len(buf) = n, on a regular file at offset p: a zero-length
\* read returns (0, nil); at end of file it returns (0, io.EOF); otherwise it
\* fills min(n, available) bytes of buf, leaves the rest of buf as make()
\* zeroed it, and reports NO error, also when fewer than n bytes were read.
FileRead(f, p, n) ==
    IF n = 0 THEN [n |-> 0, err |-> NoErr, buf |-> <<>>]
    ELSE IF Avail(f, p) = 0 THEN [n |-> 0, err |-> ErrEOF, buf |-> Zeros(n)]
    ELSE LET got == Min(n, Avail(f, p))
         IN  [n |-> got, err |-> NoErr,
              buf |-> SubSeq(f, p + 1, p + got) \o Zeros(n - got)]

\* binary.BigEndian.Uint32(buf)
BigEndianUint32(b) == b[1] * 16777216 + b[2] * 65536 + b[3] * 256 + b[4]

\* readU32: one Read of 4 bytes; only the error of Read is looked at.
readU32(f, p) ==
    LET r == FileRead(f, p, 4)
    IN  IF r.err # NoErr
        THEN [val |-> 0, err |-> r.err, pos |-> p + r.n, short |-> TRUE]
        ELSE [val |-> BigEndianUint32(r.buf), err |-> NoErr, pos |-> p + r.n,
              short |-> r.n < 4]

\* readString without the padding skip (a plausible slip)
readStringNoPad(f, p) ==
    LET l == readU32(f, p)
    IN  IF l.err # NoErr
        THEN [str |-> <<>>, err |-> l.err, pos |-> l.pos, short |-> TRUE]
        ELSE LET r == FileRead(f, l.pos, l.val)
             IN  IF r.err # NoErr
                 THEN [str |-> <<>>, err |-> r.err, pos |-> l.pos + r.n, short |-> TRUE]
                 ELSE [str |-> r.buf, err |-> NoErr, pos |-> l.pos + r.n,
                       short |-> l.short \/ r.n < l.val]

\* readString: length word, payload Read, then Seek(pad, io.SeekCurrent).
\* Seek on a regular file moves the offset and does not fail, also past the
\* end of the file.
readString(f, p) ==
    LET l == readU32(f, p)
    IN  IF l.err # NoErr
        THEN [str |-> <<>>, err |-> l.err, pos |-> l.pos, short |-> TRUE]
        ELSE LET r == FileRead(f, l.pos, l.val)
             IN  IF r.err # NoErr
                 THEN [str |-> <<>>, err |-> r.err, pos |-> l.pos + r.n, short |-> TRUE]
                 ELSE LET pad == (4 - (l.val % 4)) % 4
                          end == l.pos + r.n + pad
                      IN  [str |-> r.buf, err |-> NoErr, pos |-> end,
                           short |-> l.short \/ r.n < l.val \/ end > Len(f)]

\* ---- the inputs: byte layouts of header files ---------------------------
\* big-endian bytes of a 32-bit word
U32(v) == << (v \div 16777216) % 256, (v \div 65536) % 256, (v \div 256) % 256, v % 256 >>

PadLen(n) == (4 - (n % 4)) % 4

RECURSIVE Concat(_)
Concat(ss) == IF ss = <<>> THEN <<>> ELSE Head(ss) \o Concat(Tail(ss))

EncText(s) == U32(Len(s)) \o s \o Zeros(PadLen(Len(s)))

EncDim(d) == EncText(d.name) \o U32(d.length)

EncAttr(a) ==
    EncText(a.name) \o U32(a.type) \o U32(Len(a.values)) \o a.values
        \o Zeros(PadLen(Len(a.values)))

EncList(tag, items) ==
    IF tag = 0 THEN U32(0) ELSE U32(tag) \o U32(Len(items)) \o Concat(items)

EncAttrList(tag, attrs) == EncList(tag, [k \in 1..Len(attrs) |-> EncAttr(attrs[k])])

EncVar(v) ==
    EncText(v.name) \o U32(Len(v.dimIDs))
        \o Concat([k \in 1..Len(v.dimIDs) |-> U32(v.dimIDs[k])])
        \o EncAttrList(v.attrTag, v.attrs)
        \o U32(v.type) \o U32(v.vsize) \o U32(v.offset)

EncDimList(h) == EncList(h.dimTag, [k \in 1..Len(h.dims) |-> EncDim(h.dims[k])])

EncVarList(h) == EncList(h.varTag, [k \in 1..Len(h.vars) |-> EncVar(h.vars[k])])

\* the bytes "CDF"
MagicCDF == <<67, 68, 70>>
MagicBad == <<67, 68, 88>>

\* attribute "id" with one value byte, attribute "" with five
AttrId == [name |-> <<105, 100>>, type |-> 2, values |-> <<7>>]
AttrAnon == [name |-> <<>>, type |-> 4, values |-> <<1, 2, 3, 4, 5>>]

\* the global attribute list of an input: not in the file at all, the zero
\* tag, or a list of one attribute
GattKinds == {"none", "zero", "list"}

EncGatt(h) ==
    CASE h.gatt = "none" -> <<>>
      [] h.gatt = "zero" -> EncAttrList(0, <<>>)
      [] h.gatt = "list" -> EncAttrList(AttrTag, <<AttrId>>)

Encode(h) ==
    h.magic \o <<h.format>> \o U32(h.numrecs) \o EncDimList(h) \o EncGatt(h) \o EncVarList(h)

\* dimensions ("lat", 180) and the record dimension ("x", 0)
DimLat == [name |-> <<108, 97, 116>>, length |-> 180]
DimRec == [name |-> <<120>>, length |-> 0]
DimSet == {DimLat, DimRec}

\* variables: "temp" as in the end-to-end scenario, "depth" with two
\* dimensions and two attributes, "" with a present but empty attribute list,
\* and one whose nested attribute list has a wrong tag
VarTemp ==
    [name |-> <<116, 101, 109, 112>>, dimIDs |-> <<0>>, attrTag |-> 0, attrs |-> <<>>,
     type |-> 5, vsize |-> 720, offset |-> 1024]
VarDepth ==
    [name |-> <<100, 101, 112, 116, 104>>, dimIDs |-> <<1, 0>>, attrTag |-> AttrTag,
     attrs |-> <<AttrId, AttrAnon>>, type |-> 6, vsize |-> 8, offset |-> 2048]
VarAnon ==
    [name |-> <<>>, dimIDs |-> <<>>, attrTag |-> AttrTag, attrs |-> <<>>,
     type |-> 1, vsize |-> 4, offset |-> 20]
VarBadAttrTag == [VarTemp EXCEPT !.attrTag = 13]
VarSet == {VarTemp, VarDepth, VarAnon}

SeqUpTo(S, n) == UNION {[1..k -> S] : k \in 0..n}

GoodHeaders ==
    {h \in [magic : {MagicCDF}, format : {ClassicFormat, Format64BitOffset},
            numrecs : {0}, dimTag : {0, DimTag}, dims : SeqUpTo(DimSet, MaxDims),
            gatt : GattKinds, varTag : {0, VarTag}, vars : SeqUpTo(VarSet, MaxVars)] :
        /\ h.dimTag = 0 => h.dims = <<>>
        /\ h.varTag = 0 => h.vars = <<>>}

Plain ==
    [magic |-> MagicCDF, format |-> ClassicFormat, numrecs |-> 5, dimTag |-> DimTag,
     dims |-> <<DimLat>>, gatt |-> "none", varTag |-> VarTag, vars |-> <<VarTemp>>]

\* corrupted files: wrong magic, unknown format byte, wrong list tags
BadHeaders ==
    { [Plain EXCEPT !.magic = MagicBad],
      [Plain EXCEPT !.format = 3],
      [Plain EXCEPT !.dimTag = VarTag],
      [Plain EXCEPT !.dimTag = 7],
      [Plain EXCEPT !.format = Format64BitOffset, !.dimTag = 7, !.gatt = "zero"],
      [Plain EXCEPT !.varTag = DimTag],
      [Plain EXCEPT !.varTag = 7, !.gatt = "zero"],
      [Plain EXCEPT !.vars = <<VarBadAttrTag>>] }

Headers == GoodHeaders \cup BadHeaders

Items(h) == Len(h.dims) + Len(h.vars) + (IF h.gatt = "list" THEN 1 ELSE 0)

\* every header whole, and the small ones also cut short at every byte
Inputs ==
    {[hdr |-> h, keep |-> Len(Encode(h))] : h \in Headers}
        \cup UNION {{[hdr |-> h, keep |-> k] : k \in 0..(Len(Encode(h)) - 1)} :
                        h \in {g \in Headers : Items(g) <= MaxTruncItems}}

FileOf(in) == SubSeq(Encode(in.hdr), 1, in.keep)

\* ---- the state ----------------------------------------------------------
VARIABLES
    input,    \* the header and cut the file was built from (never changes)
    file,     \* the bytes of the file at path
    pc,       \* the read the code is about to do
    fstate,   \* the os.File f: "none", "open" or "closed"
    closes,   \* number of f.Close() calls so far
    pos,      \* file offset of f
    format,   \* Open's local format
    nc,       \* the File value built at line 108 (made = FALSE before that)
    ret,      \* what Open returned: file is "nil" or "nc", err the error
    dl,       \* locals of readDimList
    vl,       \* locals of readVarList
    al,       \* locals of readAttrList
    tagLog,   \* history: the list tag words consumed, by which reader, where
    short     \* history: some Read got fewer bytes than asked, or a Seek
              \* went past the end of the file

vars == <<input, file, pc, fstate, closes, pos, format, nc, ret, dl, vl, al, tagLog, short>>

\* Dimension{Name, Length}, Attribute{Name, Type, Values}, Variable{...}
Dimension(n, l) == [name |-> n, length |-> l]
Attribute(n, t, v) == [name |-> n, type |-> t, values |-> v]
Variable(n, d, a, t, s, o) ==
    [name |-> n, dimIDs |-> d, attrs |-> a, type |-> t, vsize |-> s, offset |-> o]

Init ==
    /\ input \in Inputs
    /\ file = FileOf(input)
    /\ pc = "os_open"
    /\ fstate = "none"
    /\ closes = 0
    /\ pos = 0
    /\ format = 0
    /\ nc = [made |-> FALSE, Format |-> 0, NumRecs |-> 0, Dims |-> <<>>, Vars |-> <<>>]
    /\ ret = [file |-> "nil", err |-> NoErr]
    /\ dl = [nelems |-> 0, i |-> 0, dims |-> <<>>, name |-> <<>>]
    /\ vl = [nelems |-> 0, i |-> 0, vars |-> <<>>, name |-> <<>>, nDims |-> 0,
             dimIDs |-> <<>>, j |-> 0, attrs |-> <<>>, dtype |-> 0, vsize |-> 0]
    /\ al = [nelems |-> 0, i |-> 0, attrs |-> <<>>, name |-> <<>>, atype |-> 0, nvals |-> 0]
    /\ tagLog = <<>>
    /\ short = FALSE

\* ---- how Open returns ---------------------------------------------------
\* an error return that hands the half-built File to the caller as well
FailPartial(e) ==
    /\ fstate' = "closed"
    /\ closes' = closes + 1
    /\ ret' = [file |-> "nc", err |-> e]
    /\ pc' = "returned"

\* an error return that forgets f.Close()
FailNoClose(e) ==
    /\ UNCHANGED <<fstate, closes>>
    /\ ret' = [file |-> "nil", err |-> e]
    /\ pc' = "returned"

\* every error path of Open after os.Open succeeded: f.Close(); return nil, err
Fail(e) ==
    /\ fstate' = "closed"
    /\ closes' = closes + 1
    /\ ret' = [file |-> "nil", err |-> e]
    /\ pc' = "returned"

\* return nc, nil
Succeed ==
    /\ UNCHANGED <<fstate, closes>>
    /\ ret' = [file |-> "nc", err |-> NoErr]
    /\ pc' = "returned"

Continue(next) ==
    /\ UNCHANGED <<fstate, closes, ret>>
    /\ pc' = next

\* ---- Open ---------------------------------------------------------------
\* os.Open(path): the path may not be openable; then nothing was opened.
OsOpen ==
    /\ pc = "os_open"
    /\ \E ok \in BOOLEAN :
          IF ok
          THEN /\ fstate' = "open"
               /\ pc' = "magic"
               /\ UNCHANGED <<closes, ret>>
          ELSE /\ ret' = [file |-> "nil", err |-> ErrOpen]
               /\ pc' = "returned"
               /\ UNCHANGED <<fstate, closes>>
    /\ UNCHANGED <<input, file, pos, format, nc, dl, vl, al, tagLog, short>>

\* header := make([]byte, 4); f.Read(header); magic and format checks
ReadMagic ==
    /\ pc = "magic"
    /\ LET r == FileRead(file, pos, 4)
       IN  /\ pos' = pos + r.n
           /\ short' = (short \/ r.n < 4)
           /\ IF r.err # NoErr
              THEN Fail(r.err) /\ UNCHANGED format
              ELSE IF SubSeq(r.buf, 1, 3) # MagicCDF
              THEN Fail(ErrMagic) /\ UNCHANGED format
              ELSE IF r.buf[4] # ClassicFormat /\ r.buf[4] # Format64BitOffset
              THEN Fail(ErrFormat) /\ format' = r.buf[4]
              ELSE Continue("numrecs") /\ format' = r.buf[4]
    /\ UNCHANGED <<input, file, nc, dl, vl, al, tagLog>>

\* buf := make([]byte, 4); f.Read(buf); numrecs; nc := &File{...}
ReadNumRecs ==
    /\ pc = "numrecs"
    /\ LET r == FileRead(file, pos, 4)
       IN  /\ pos' = pos + r.n
           /\ short' = (short \/ r.n < 4)
           /\ IF r.err # NoErr
              THEN Fail(r.err) /\ UNCHANGED nc
              ELSE /\ Continue("dim_tag")
                   /\ nc' = [made |-> TRUE, Format |-> format,
                             NumRecs |-> BigEndianUint32(r.buf),
                             Dims |-> <<>>, Vars |-> <<>>]
    /\ UNCHANGED <<input, file, format, dl, vl, al, tagLog>>

\* ---- readDimList --------------------------------------------------------
\* a reader that takes any nonzero tag for its own
dimTagCaseLenient(tag) == IF tag = 0 THEN "absent" ELSE "list"

\* a reader that reads a count after the zero tag as well
dimTagCaseCounted(tag) == IF tag # DimTag /\ tag # 0 THEN "mismatch" ELSE "list"

\* if tag == 0 {...}; if tag != 0x0A {...}
dimTagCase(tag) ==
    IF tag = 0 THEN "absent" ELSE IF tag # DimTag THEN "mismatch" ELSE "list"

LogTag(by, r) == Append(tagLog, [by |-> by, at |-> pos, tag |-> r.val, whole |-> ~r.short])

ReadDimTag ==
    /\ pc = "dim_tag"
    /\ LET r == readU32(file, pos)
       IN  /\ pos' = r.pos
           /\ short' = (short \/ r.short)
           /\ IF r.err # NoErr
              THEN Fail(r.err) /\ UNCHANGED <<nc, tagLog>>
              ELSE /\ tagLog' = LogTag("readDimList", r)
                   /\ CASE dimTagCase(r.val) = "absent" ->
                             Continue("var_tag") /\ nc' = [nc EXCEPT !.Dims = <<>>]
                        [] dimTagCase(r.val) = "mismatch" ->
                             Fail(ErrDimTag) /\ UNCHANGED nc
                        [] dimTagCase(r.val) = "list" ->
                             Continue("dim_count") /\ UNCHANGED nc
    /\ UNCHANGED <<input, file, format, dl, vl, al>>

\* nelems; dims := make(...); first test of i < int(nelems)
ReadDimCount ==
    /\ pc = "dim_count"
    /\ LET r == readU32(file, pos)
       IN  /\ pos' = r.pos
           /\ short' = (short \/ r.short)
           /\ IF r.err # NoErr
              THEN Fail(r.err) /\ UNCHANGED <<nc, dl>>
              ELSE /\ dl' = [nelems |-> r.val, i |-> 0, dims |-> <<>>, name |-> <<>>]
                   /\ IF 0 < r.val
                      THEN Continue("dim_name") /\ UNCHANGED nc
                      ELSE Continue("var_tag") /\ nc' = [nc EXCEPT !.Dims = <<>>]
    /\ UNCHANGED <<input, file, format, vl, al, tagLog>>

ReadDimName ==
    /\ pc = "dim_name"
    /\ LET r == readString(file, pos)
       IN  /\ pos' = r.pos
           /\ short' = (short \/ r.short)
           /\ IF r.err # NoErr
              THEN Fail(r.err) /\ UNCHANGED dl
              ELSE Continue("dim_length") /\ dl' = [dl EXCEPT !.name = r.str]
    /\ UNCHANGED <<input, file, format, nc, vl, al, tagLog>>

\* a list that puts each new item first
PrependDim(dims, d) == <<d>> \o dims

\* dims = append(dims, Dimension{Name: name, Length: length})
AppendDim(dims, d) == Append(dims, d)

\* length; append; i++; test; after the loop nc.Dims = dims; return nil
ReadDimLength ==
    /\ pc = "dim_length"
    /\ LET r == readU32(file, pos)
       IN  /\ pos' = r.pos
           /\ short' = (short \/ r.short)
           /\ IF r.err # NoErr
              THEN Fail(r.err) /\ UNCHANGED <<nc, dl>>
              ELSE LET dims == AppendDim(dl.dims, Dimension(dl.name, r.val))
                   IN  /\ dl' = [dl EXCEPT !.dims = dims, !.i = dl.i + 1]
                       /\ IF dl.i + 1 < dl.nelems
                          THEN Continue("dim_name") /\ UNCHANGED nc
                          ELSE Continue("var_tag") /\ nc' = [nc EXCEPT !.Dims = dims]
    /\ UNCHANGED <<input, file, format, vl, al, tagLog>>

\* ---- readVarList --------------------------------------------------------
\* if tag == 0 {...}; if tag != 0x0B {...}
varTagCase(tag) ==
    IF tag = 0 THEN "absent" ELSE IF tag # VarTag THEN "mismatch" ELSE "list"

\* Open has no step between readDimList and readVarList: the word after
\* the dimension list is read here.  tag 0: nc.Vars = {}; Open returns nc.
ReadVarTag ==
    /\ pc = "var_tag"
    /\ LET r == readU32(file, pos)
       IN  /\ pos' = r.pos
           /\ short' = (short \/ r.short)
           /\ IF r.err # NoErr
              THEN Fail(r.err) /\ UNCHANGED <<nc, tagLog>>
              ELSE /\ tagLog' = LogTag("readVarList", r)
                   /\ CASE varTagCase(r.val) = "absent" ->
                             Succeed /\ nc' = [nc EXCEPT !.Vars = <<>>]
                        [] varTagCase(r.val) = "mismatch" ->
                             Fail(ErrVarTag) /\ UNCHANGED nc
                        [] varTagCase(r.val) = "list" ->
                             Continue("var_count") /\ UNCHANGED nc
    /\ UNCHANGED <<input, file, format, dl, vl, al>>

ReadVarCount ==
    /\ pc = "var_count"
    /\ LET r == readU32(file, pos)
       IN  /\ pos' = r.pos
           /\ short' = (short \/ r.short)
           /\ IF r.err # NoErr
              THEN Fail(r.err) /\ UNCHANGED <<nc, vl>>
              ELSE /\ vl' = [vl EXCEPT !.nelems = r.val, !.i = 0, !.vars = <<>>]
                   /\ IF 0 < r.val
                      THEN Continue("var_name") /\ UNCHANGED nc
                      ELSE Succeed /\ nc' = [nc EXCEPT !.Vars = <<>>]
    /\ UNCHANGED <<input, file, format, dl, al, tagLog>>

ReadVarName ==
    /\ pc = "var_name"
    /\ LET r == readString(file, pos)
       IN  /\ pos' = r.pos
           /\ short' = (short \/ r.short)
           /\ IF r.err # NoErr
              THEN Fail(r.err) /\ UNCHANGED vl
              ELSE Continue("var_ndims") /\ vl' = [vl EXCEPT !.name = r.str]
    /\ UNCHANGED <<input, file, format, nc, dl, al, tagLog>>

\* nDims; dimIDs := make([]uint32, nDims); first test of j < nDims
ReadVarNDims ==
    /\ pc = "var_ndims"
    /\ LET r == readU32(file, pos)
       IN  /\ pos' = r.pos
           /\ short' = (short \/ r.short)
           /\ IF r.err # NoErr
              THEN Fail(r.err) /\ UNCHANGED vl
              ELSE /\ vl' = [vl EXCEPT !.nDims = r.val, !.dimIDs = Zeros(r.val), !.j = 0]
                   /\ Continue(IF 0 < r.val THEN "var_dimid" ELSE "attr_tag")
    /\ UNCHANGED <<input, file, format, nc, dl, al, tagLog>>

\* dimIDs[j], err = readU32(nc.f); j++
ReadVarDimID ==
    /\ pc = "var_dimid"
    /\ LET r == readU32(file, pos)
       IN  /\ pos' = r.pos
           /\ short' = (short \/ r.short)
           /\ vl' = [vl EXCEPT !.dimIDs[vl.j + 1] = r.val, !.j = vl.j + 1]
           /\ IF r.err # NoErr
              THEN Fail(r.err)
              ELSE Continue(IF vl.j + 1 < vl.nDims THEN "var_dimid" ELSE "attr_tag")
    /\ UNCHANGED <<input, file, format, nc, dl, al, tagLog>>

\* ---- readAttrList (called once per variable, from readVarList) ----------
\* if tag == 0 {...}; if tag != 0x0C {...}
attrTagCase(tag) ==
    IF tag = 0 THEN "absent" ELSE IF tag # AttrTag THEN "mismatch" ELSE "list"

ReadAttrTag ==
    /\ pc = "attr_tag"
    /\ LET r == readU32(file, pos)
       IN  /\ pos' = r.pos
           /\ short' = (short \/ r.short)
           /\ IF r.err # NoErr
              THEN Fail(r.err) /\ UNCHANGED <<vl, tagLog>>
              ELSE /\ tagLog' = LogTag("readAttrList", r)
                   /\ CASE attrTagCase(r.val) = "absent" ->
                             Continue("var_type") /\ vl' = [vl EXCEPT !.attrs = <<>>]
                        [] attrTagCase(r.val) = "mismatch" ->
                             Fail(ErrAttrTag) /\ UNCHANGED vl
                        [] attrTagCase(r.val) = "list" ->
                             Continue("attr_count") /\ UNCHANGED vl
    /\ UNCHANGED <<input, file, format, nc, dl, al>>

ReadAttrCount ==
    /\ pc = "attr_count"
    /\ LET r == readU32(file, pos)
       IN  /\ pos' = r.pos
           /\ short' = (short \/ r.short)
           /\ IF r.err # NoErr
              THEN Fail(r.err) /\ UNCHANGED <<vl, al>>
              ELSE /\ al' = [al EXCEPT !.nelems = r.val, !.i = 0, !.attrs = <<>>]
                   /\ IF 0 < r.val
                      THEN Continue("attr_name") /\ UNCHANGED vl
                      ELSE Continue("var_type") /\ vl' = [vl EXCEPT !.attrs = <<>>]
    /\ UNCHANGED <<input, file, format, nc, dl, tagLog>>

ReadAttrName ==
    /\ pc = "attr_name"
    /\ LET r == readString(file, pos)
       IN  /\ pos' = r.pos
           /\ short' = (short \/ r.short)
           /\ IF r.err # NoErr
              THEN Fail(r.err) /\ UNCHANGED al
              ELSE Continue("attr_type") /\ al' = [al EXCEPT !.name = r.str]
    /\ UNCHANGED <<input, file, format, nc, dl, vl, tagLog>>

ReadAttrType ==
    /\ pc = "attr_type"
    /\ LET r == readU32(file, pos)
       IN  /\ pos' = r.pos
           /\ short' = (short \/ r.short)
           /\ IF r.err # NoErr
              THEN Fail(r.err) /\ UNCHANGED al
              ELSE Continue("attr_nvals") /\ al' = [al EXCEPT !.atype = r.val]
    /\ UNCHANGED <<input, file, format, nc, dl, vl, tagLog>>

ReadAttrNVals ==
    /\ pc = "attr_nvals"
    /\ LET r == readU32(file, pos)
       IN  /\ pos' = r.pos
           /\ short' = (short \/ r.short)
           /\ IF r.err # NoErr
              THEN Fail(r.err) /\ UNCHANGED al
              ELSE Continue("attr_values") /\ al' = [al EXCEPT !.nvals = r.val]
    /\ UNCHANGED <<input, file, format, nc, dl, vl, tagLog>>

\* buf := make([]byte, nvals); nc.f.Read(buf); Seek(pad) with its error
\* dropped; append; i++; test; after the loop return attrs, nil
ReadAttrValues ==
    /\ pc = "attr_values"
    /\ LET r == FileRead(file, pos, al.nvals)
           pad == (4 - (al.nvals % 4)) % 4
       IN  IF r.err # NoErr
           THEN /\ pos' = pos + r.n
                /\ short' = TRUE
                /\ Fail(r.err)
                /\ UNCHANGED <<vl, al>>
           ELSE LET attrs == Append(al.attrs, Attribute(al.name, al.atype, r.buf))
                IN  /\ pos' = pos + r.n + pad
                    /\ short' = (short \/ r.n < al.nvals \/ pos + r.n + pad > Len(file))
                    /\ al' = [al EXCEPT !.attrs = attrs, !.i = al.i + 1]
                    /\ IF al.i + 1 < al.nelems
                       THEN Continue("attr_name") /\ UNCHANGED vl
                       ELSE Continue("var_type") /\ vl' = [vl EXCEPT !.attrs = attrs]
    /\ UNCHANGED <<input, file, format, nc, dl, tagLog>>

\* ---- readVarList, after the nested attribute list -----------------------
ReadVarType ==
    /\ pc = "var_type"
    /\ LET r == readU32(file, pos)
       IN  /\ pos' = r.pos
           /\ short' = (short \/ r.short)
           /\ IF r.err # NoErr
              THEN Fail(r.err) /\ UNCHANGED vl
              ELSE Continue("var_vsize") /\ vl' = [vl EXCEPT !.dtype = r.val]
    /\ UNCHANGED <<input, file, format, nc, dl, al, tagLog>>

ReadVarVSize ==
    /\ pc = "var_vsize"
    /\ LET r == readU32(file, pos)
       IN  /\ pos' = r.pos
           /\ short' = (short \/ r.short)
           /\ IF r.err # NoErr
              THEN Fail(r.err) /\ UNCHANGED vl
              ELSE Continue("var_offset") /\ vl' = [vl EXCEPT !.vsize = r.val]
    /\ UNCHANGED <<input, file, format, nc, dl, al, tagLog>>

\* an offset read that is 8 bytes wide in the 64-bit-offset format (the
\* low word is kept)
offsetField64(f, p, fmt) ==
    IF fmt = Format64BitOffset
    THEN LET hi == readU32(f, p)
         IN  IF hi.err # NoErr THEN hi
             ELSE LET lo == readU32(f, hi.pos)
                  IN  [lo EXCEPT !.short = hi.short \/ lo.short]
    ELSE readU32(f, p)

\* offset, err := readU32(nc.f), whatever nc.Format is
offsetField(f, p, fmt) == readU32(f, p)

\* offset; append; i++; test; after the loop nc.Vars = vars; Open returns nc
ReadVarOffset ==
    /\ pc = "var_offset"
    /\ LET r == offsetField(file, pos, nc.Format)
       IN  /\ pos' = r.pos
           /\ short' = (short \/ r.short)
           /\ IF r.err # NoErr
              THEN Fail(r.err) /\ UNCHANGED <<nc, vl>>
              ELSE LET vs == Append(vl.vars,
                                    Variable(vl.name, vl.dimIDs, vl.attrs, vl.dtype,
                                             vl.vsize, r.val))
                   IN  /\ vl' = [vl EXCEPT !.vars = vs, !.i = vl.i + 1]
                       /\ IF vl.i + 1 < vl.nelems
                          THEN Continue("var_name") /\ UNCHANGED nc
                          ELSE Succeed /\ nc' = [nc EXCEPT !.Vars = vs]
    /\ UNCHANGED <<input, file, format, dl, al, tagLog>>

\* ---- the caller ---------------------------------------------------------
\* main: defer nc.Close() on the File that Open returned
Close ==
    /\ pc = "returned"
    /\ ret.file = "nc"
    /\ ret.err = NoErr
    /\ fstate' = "closed"
    /\ closes' = closes + 1
    /\ pc' = "exit"
    /\ UNCHANGED <<input, file, pos, format, nc, ret, dl, vl, al, tagLog, short>>

Next ==
    \/ OsOpen
    \/ ReadMagic
    \/ ReadNumRecs
    \/ ReadDimTag
    \/ ReadDimCount
    \/ ReadDimName
    \/ ReadDimLength
    \/ ReadVarTag
    \/ ReadVarCount
    \/ ReadVarName
    \/ ReadVarNDims
    \/ ReadVarDimID
    \/ ReadAttrTag
    \/ ReadAttrCount
    \/ ReadAttrName
    \/ ReadAttrType
    \/ ReadAttrNVals
    \/ ReadAttrValues
    \/ ReadVarType
    \/ ReadVarVSize
    \/ ReadVarOffset
    \/ Close

Spec == Init /\ [][Next]_vars

\* ---- vocabulary of the properties ---------------------------------------
hdr == input.hdr

\* the file was opened (os.Open did not fail)
Opened == fstate # "none"

\* the file holds the whole encoding of its header
Whole == input.keep = Len(Encode(hdr))

Returned == pc \in {"returned", "exit"}

\* the file starts with "CDF", a format byte of 1 or 2, and numrecs
HeaderValid ==
    /\ Len(file) >= 8
    /\ SubSeq(file, 1, 3) = MagicCDF
    /\ file[4] \in {ClassicFormat, Format64BitOffset}

\* a whole 32-bit word lies at offset p, and its value
WordAt(p) == p + 4 <= Len(file)
Word(p) == BigEndianUint32(SubSeq(file, p + 1, p + 4))

\* the positions of Open before readDimList has returned
BeforeDims == {"os_open", "magic", "numrecs", "dim_tag", "dim_count", "dim_name", "dim_length"}

InAttrList == {"attr_tag", "attr_count", "attr_name", "attr_type", "attr_nvals", "attr_values"}

AsVariable(v) == Variable(v.name, v.dimIDs, v.attrs, v.type, v.vsize, v.offset)

\* the length word, payload and padding of a text lie whole at offset p
TextWholeAt(p) ==
    /\ WordAt(p)
    /\ p + 4 + Word(p) + PadLen(Word(p)) <= Len(file)

\* what a readString step at pos must do, name being the string it returned
ReadStringExpect(name) ==
    LET N == Word(pos)
    IN  /\ pos' = pos + 4 + N + ((4 - (N % 4)) % 4)
        /\ name = SubSeq(file, pos + 5, pos + 4 + N)
        /\ Len(name) = N
        /\ (pos' - pos) % 4 = 0
        /\ pc' # "returned"

\* a whole tag word equal to 0 lies at offset p
ZeroTagAt(p) == WordAt(p) /\ Word(p) = 0

\* the file holds a whole dimension list with tag 0x0A after a valid header
WellFormedDimList ==
    /\ HeaderValid
    /\ hdr.dimTag = DimTag
    /\ input.keep >= 8 + Len(EncDimList(hdr))

\* the step does not end Open with an error or a result
Going == pc' # "returned"

\* ---- C1 -----------------------------------------------------------------
\* C1: after the dimension list, the next tag word is consumed as the global
\* attribute list's tag (accepted when 0 or 0x0C), and only the tag after the
\* end of that list is taken as the variable list's tag.  Stated on the
\* history of tag words: the second tag word consumed is read by the
\* attribute list reader, and a whole file whose global attribute list is
\* present is not rejected for its 0x0C tag.
C1_GattReadAfterDims ==
    /\ (Len(tagLog) >= 2 /\ tagLog[2].whole) => tagLog[2].by = "readAttrList"
    /\ (Returned /\ Opened /\ Whole /\ hdr \in GoodHeaders /\ hdr.gatt = "list")
          => ret.err # ErrVarTag

\* ---- C2 -----------------------------------------------------------------
\* C2: a well-formed header with dim_list, the zero gatt_list tag and a
\* var_list of k >= 1 variables opens successfully and Vars holds exactly the
\* k encoded variables in file order.
C2_VarsAfterZeroGatt ==
    (/\ Returned /\ Opened /\ Whole
     /\ hdr \in GoodHeaders /\ hdr.gatt = "zero"
     /\ hdr.varTag = VarTag /\ Len(hdr.vars) >= 1)
        => /\ ret = [file |-> "nc", err |-> NoErr]
           /\ nc.Vars = [k \in 1..Len(hdr.vars) |-> AsVariable(hdr.vars[k])]

\* ---- C3 -----------------------------------------------------------------
\* C3: a short read anywhere is fatal: once some field had fewer bytes left
\* than it needs (integer, payload or padding), Open returns an error and no
\* File.
C3_ShortReadFatal ==
    (Returned /\ short) => (ret.file = "nil" /\ ret.err # NoErr)

\* ---- C4 -----------------------------------------------------------------
\* C4: readString on a buffer holding the whole length field, payload and
\* padding advances the offset by exactly 4 + N + ((4 - N mod 4) mod 4),
\* returns exactly the N payload bytes, and so leaves the offset a multiple
\* of 4 away from where it started.
C4_ReadStringAdvance ==
    [][ /\ (pc = "dim_name" /\ TextWholeAt(pos)) => ReadStringExpect(dl'.name)
        /\ (pc = "var_name" /\ TextWholeAt(pos)) => ReadStringExpect(vl'.name)
        /\ (pc = "attr_name" /\ TextWholeAt(pos)) => ReadStringExpect(al'.name) ]_vars

\* a five-byte name (three bytes of padding) has been read from a whole file
C4_Witness ==
    /\ pc = "var_ndims"
    /\ vl.name = VarDepth.name
    /\ ~short

\* ---- C5 -----------------------------------------------------------------
\* C5: with valid magic, format and numrecs, a dimension-list tag word that
\* is nonzero and not 0x0A makes Open fail with the dim_list tag error and a
\* nil File, and no dimension, attribute or variable is decoded.
C5_BadDimTagFails ==
    (/\ Opened /\ HeaderValid /\ WordAt(8) /\ Word(8) \notin {0, DimTag})
        => /\ pc \in {"magic", "numrecs", "dim_tag", "returned"}
           /\ pc = "returned" =>
                 /\ ret = [file |-> "nil", err |-> ErrDimTag]
                 /\ pos = 12
                 /\ Len(tagLog) = 1
           /\ dl.dims = <<>> /\ al.attrs = <<>> /\ vl.vars = <<>>
           /\ nc.Dims = <<>> /\ nc.Vars = <<>>

C5_Witness ==
    /\ pc = "returned"
    /\ HeaderValid
    /\ Len(tagLog) = 1
    /\ tagLog[1].tag = 7

\* ---- C6 -----------------------------------------------------------------
\* C6: in each list reader a tag word equal to 0 gives the empty sequence
\* with exactly the 4 tag bytes consumed and no count read; after a zero
\* dim_list tag the next list's tag is the very next word.
C6_ZeroTagAbsent ==
    [][ /\ (pc = "dim_tag" /\ ZeroTagAt(pos)) =>
               /\ pos' = pos + 4
               /\ nc'.Dims = <<>>
               /\ pc' = "var_tag"
               /\ dl' = dl
        /\ (pc = "attr_tag" /\ ZeroTagAt(pos)) =>
               /\ pos' = pos + 4
               /\ vl'.attrs = <<>>
               /\ pc' = "var_type"
               /\ al' = al
        /\ (pc = "var_tag" /\ ZeroTagAt(pos)) =>
               /\ pos' = pos + 4
               /\ nc'.Vars = <<>>
               /\ pc' = "returned"
               /\ ret' = [file |-> "nc", err |-> NoErr] ]_vars

\* a zero dim_list tag at offset 8, the variable list read from offset 12,
\* and a variable's nested attribute list absent by its zero tag
C6_Witness ==
    /\ Len(tagLog) >= 3
    /\ tagLog[1] = [by |-> "readDimList", at |-> 8, tag |-> 0, whole |-> TRUE]
    /\ tagLog[2] = [by |-> "readVarList", at |-> 12, tag |-> VarTag, whole |-> TRUE]
    /\ tagLog[3].by = "readAttrList" /\ tagLog[3].tag = 0 /\ tagLog[3].whole
    /\ pc = "var_type"

\* ---- C7 -----------------------------------------------------------------
\* C7: a well-formed dimension list with tag 0x0A and k dimensions d1..dk is
\* parsed into Dims of length k with Dims[i] = di: same order, nothing
\* merged, dropped or added.
C7_DimsInFileOrder ==
    (Opened /\ WellFormedDimList /\ pc \notin BeforeDims)
        => /\ Len(nc.Dims) = Len(hdr.dims)
           /\ \A k \in 1..Len(hdr.dims) : nc.Dims[k] = hdr.dims[k]

C7_Witness ==
    /\ pc = "var_tag"
    /\ WellFormedDimList
    /\ nc.Dims = <<DimRec, DimLat>>

\* ---- C8 -----------------------------------------------------------------
\* C8: Open returns either a File and no error or no File and one error,
\* never both and never neither; the first failing step ends the parse, and
\* a File is returned only with both lists read to their end.
C8_AllOrNothing ==
    /\ Returned =>
          \/ ret.file = "nc" /\ ret.err = NoErr
          \/ ret.file = "nil" /\ ret.err # NoErr
    /\ ~Returned => ret = [file |-> "nil", err |-> NoErr]
    /\ ret.err # NoErr => pc = "returned"
    /\ ret.file = "nc" => (nc.made /\ nc.Dims = dl.dims /\ nc.Vars = vl.vars)

\* a failure deep in the parse, in a variable's nested attribute list
C8_Witness ==
    /\ pc = "returned"
    /\ ret.err = ErrAttrTag
    /\ nc.Dims = <<DimLat>>

\* ---- C9 -----------------------------------------------------------------
\* C9: a variable is read as name, nDims, exactly nDims dimension IDs, the
\* nested attribute list (tag 0x0C or 0), type, vsize, offset, in this order,
\* and the offset is 4 bytes wide in both formats: the next variable, or the
\* end of the list, starts 4 bytes after the offset field starts.
C9_VariableFields ==
    [][ /\ (pc = "var_name" /\ Going) => pc' = "var_ndims"
        /\ (pc = "var_ndims" /\ Going) =>
               /\ vl'.j = 0
               /\ pc' = (IF vl'.nDims > 0 THEN "var_dimid" ELSE "attr_tag")
        /\ (pc = "var_dimid" /\ Going) =>
               /\ vl'.j = vl.j + 1
               /\ pc' = (IF vl'.j = vl.nDims THEN "attr_tag" ELSE "var_dimid")
               /\ WordAt(pos) => (pos' = pos + 4 /\ vl'.dimIDs[vl'.j] = Word(pos))
        /\ (pc = "attr_tag" /\ Going) =>
               /\ Len(vl.dimIDs) = vl.nDims /\ vl.j = vl.nDims
               /\ tagLog'[Len(tagLog')].tag \in {0, AttrTag}
               /\ pc' \in {"var_type", "attr_count"}
        /\ (pc \in InAttrList /\ Going /\ pc' \notin InAttrList) => pc' = "var_type"
        /\ (pc = "var_type" /\ Going) => pc' = "var_vsize"
        /\ (pc = "var_vsize" /\ Going) => pc' = "var_offset"
        /\ (pc = "var_offset" /\ WordAt(pos)) =>
               /\ pos' = pos + 4
               /\ ret'.err = NoErr
               /\ pc' = (IF Len(vl'.vars) < vl.nelems THEN "var_name" ELSE "returned")
               /\ vl'.vars[Len(vl'.vars)] =
                     Variable(vl.name, vl.dimIDs, vl.attrs, vl.dtype, vl.vsize, Word(pos)) ]_vars

\* in a 64-bit-offset file the second variable begins right after the first
\* variable's 4-byte offset
C9_Witness ==
    /\ nc.Format = Format64BitOffset
    /\ pc = "var_name"
    /\ vl.vars = <<AsVariable(VarDepth)>>
    /\ ~short

\* ---- C10 ----------------------------------------------------------------
\* C10: once os.Open succeeded, every error return of Open has closed the
\* file exactly once, and every successful return leaves it open until the
\* caller's Close; no return leaves an open handle the caller cannot reach.
C10_HandleClosed ==
    /\ closes <= 1
    /\ (pc = "returned" /\ ret.err # NoErr /\ ret.err # ErrOpen) =>
          (fstate = "closed" /\ closes = 1)
    /\ ret.err = ErrOpen => (fstate = "none" /\ closes = 0)
    /\ (pc = "returned" /\ ret.err = NoErr) =>
          (ret.file = "nc" /\ fstate = "open" /\ closes = 0)
    /\ pc = "exit" => (fstate = "closed" /\ closes = 1)
    /\ (Returned /\ fstate = "open") => ret.file = "nc"

\* an error return in the middle of the lists, with the file closed once
C10_Witness ==
    /\ pc = "returned"
    /\ ret.err = ErrEOF
    /\ pos > 12
    /\ closes = 1
====
